---------------------------- MODULE Spec2Model ----------------------------
(***************************************************************************)
(* The memcache loader of src/concurrency/memc_load.py.                    *)
(*                                                                         *)
(* Spec      : one handle_logfile run on a gzip file: the thread that      *)
(*             streams the file, the worker threads it starts, the job     *)
(*             queue and the result queue.                                 *)
(* SpecLive    : Spec with weak fairness of the next-state relation.       *)
(* SpecBounded : Spec started with positive sizes of the two queues.       *)
(* SpecTasks : handle_task threads run on a job queue that holds tasks     *)
(*             when they start: handle_task, insert_appsinstalled, the     *)
(*             result queue and the connection pools.                      *)
(* SpecParse : one call of parse_appsinstalled on a line.                  *)
(* SpecMain  : main and the __main__ block: the files of the pattern, the  *)
(*             process pool's handle_logfile tasks and the renames.        *)
(***************************************************************************)
EXTENDS Integers, Sequences, FiniteSets, Bags, TLC

VARIABLES
    file,          \* the lines the gzip file yields, each a bytes object
    dry,           \* options.dry
    maxsize,       \* config's MAX_JOB_QUEUE_SIZE (job) and MAX_RESULT_QUEUE_SIZE (result); 0 is unbounded
    ppc,           \* where the thread running handle_logfile is
    pos,           \* index of the line the for loop reads next
    processed,     \* handle_logfile's local processed
    errors,        \* handle_logfile's local errors
    verdict,       \* what lines 157-162 logged: "none", "acceptable", "high"
    job_queue,     \* Queue.Queue of tasks
    result_queue,  \* Queue.Queue of (processed, errors)
    pools,         \* collections.defaultdict(Queue.Queue): address -> idle connections
    wk,            \* the worker threads: a bag of thread states (position, locals of handle_task / insert_appsinstalled)
    calls,         \* history: per line index, the insert_appsinstalled invocations made for it
    returns,       \* history: how many insert_appsinstalled calls returned True (ok) and False (failed)
    fnames,        \* main: the sorted file names of the pattern
    loads,         \* main: per file, what loading it gives (whether reading it raises, the totals)
    task,          \* main: per file, where its handle_logfile task of the process pool is
    taken,         \* main: how many tasks the processes of the pool have taken off its queue
    mpc,           \* main: where main / __main__ is
    nxt,           \* main: index of the imap result the for loop of main waits for
    renamed,       \* main: per file, how many times dot_rename was called on it
    logged,        \* main: per file, what its handle_logfile task logged at lines 157-162
    arg,           \* parse_appsinstalled called on its own: the line passed
    ret            \* parse_appsinstalled called on its own: what the call did

vars == <<file, dry, maxsize, ppc, pos, processed, errors, verdict, job_queue,
          result_queue, pools, wk, calls, returns, fnames, loads, task, taken, mpc, nxt,
          renamed, logged, arg, ret>>

loaderVars == <<file, dry, maxsize, ppc, pos, processed, errors, verdict, job_queue,
                result_queue, pools, wk, calls, returns>>

mainVars == <<fnames, loads, task, taken, mpc, nxt, renamed, logged>>

parseVars == <<arg, ret>>

---------------------------------------------------------------------------
(* Bounds of the model                                                     *)

\* longest input file, in lines
MaxLines == 2

\* most tasks on the job queue when the handle_task threads start
MaxTasks == 2

\* config['THREADS_PER_WORKER'] of the run: the worker threads handle_logfile
\* starts (the file as shipped sets 4)
NumThreads == 2

\* config['MEMC_MAX_RETRIES'] of the run: the passes of the retry loop (the file
\* as shipped sets 1)
MaxRetries == 2

\* most files the pattern matches
MaxFiles == 3

\* multiprocessing.cpu_count() of the host: the processes of the pool
NumProcesses == 2

\* largest positive MAX_JOB_QUEUE_SIZE and MAX_RESULT_QUEUE_SIZE tried
MaxQueueSize == 2

---------------------------------------------------------------------------
(* Program constants                                                       *)

\* config['MEMC_BACKOFF_FACTOR'] = 0.3, in tenths of a second
MEMC_BACKOFF_FACTOR == 3

\* NORMAL_ERR_RATE = 0.01, as the denominator of the fraction 1/100
NORMAL_ERR_RATE_DEN == 100

\* device_memc of handle_logfile, with the default addresses of the option parser
device_memc ==
    [idfa |-> "127.0.0.1:33013",
     gaid |-> "127.0.0.1:33014",
     adid |-> "127.0.0.1:33015",
     dvid |-> "127.0.0.1:33016"]

Addrs == {device_memc[d] : d \in DOMAIN device_memc}

\* device_memc.get(dev_type): the address, or "" for None
device_memc_get(dev_type) ==
    IF dev_type \in DOMAIN device_memc THEN device_memc[dev_type] ELSE ""

---------------------------------------------------------------------------
(* parse_appsinstalled.  A line is a bytes or a str object; its text is    *)
(* the tuple of the fields between its tabs.  Field texts are drawn from a *)
(* small vocabulary and the conversions are tables over it.                *)

\* a line as gzip.open(fn) yields it (line 126: the mode defaults to binary)
Bytes(fields) == [type |-> "bytes", fields |-> fields]

\* a line as a caller holding text passes it
Text(fields) == [type |-> "str", fields |-> fields]

\* raw_apps.split(',')
SplitComma(raw_apps) ==
    CASE raw_apps = "12,7"    -> <<"12", "7">>
      [] raw_apps = "12,xx,7" -> <<"12", "xx", "7">>
      [] raw_apps = "7, 12"   -> <<"7", " 12">>
      [] OTHER                -> <<raw_apps>>

\* a.strip()
Strip(a) ==
    CASE a = " 12" -> "12"
      [] OTHER     -> a

\* whether int(text) returns
IsIntText(text) == text \in {"12", "7"}

\* int(text)
IntOf(text) ==
    CASE text = "12" -> 12
      [] text = "7"  -> 7
      [] OTHER       -> 0

\* whether float(text) returns
IsFloatText(text) == text \in {"55.55", "42.42"}

\* a coordinate of an AppsInstalled: a float, or the field's text left as it was
FloatVal(text) == [type |-> "float", text |-> text]
StrVal(text) == [type |-> "str", text |-> text]

NoRecord == [dev_type |-> "", dev_id |-> "", lat |-> StrVal(""), lon |-> StrVal(""), apps |-> <<>>]

\* parse_appsinstalled(line): what the call does ("record", "none" for a bare
\* return, "raise" for an exception leaving the function) and the record
parse_appsinstalled(line) ==
    IF line.type = "bytes"
    THEN [does |-> "raise", rec |-> NoRecord]    \* line 67: bytes.split takes no str separator
    ELSE
      LET line_parts == line.fields IN
      IF Len(line_parts) < 5 THEN [does |-> "none", rec |-> NoRecord]
      ELSE IF Len(line_parts) > 5 THEN [does |-> "raise", rec |-> NoRecord]  \* line 70: too many values to unpack
      ELSE
        LET dev_type == line_parts[1]
            dev_id   == line_parts[2]
            lat      == line_parts[3]
            lon      == line_parts[4]
            toks     == SplitComma(line_parts[5])
            allInts  == \A i \in 1..Len(toks) : IsIntText(Strip(toks[i]))
            geoOk    == IsFloatText(lat) /\ IsFloatText(lon)
        IN  IF dev_type = "" \/ dev_id = "" THEN [does |-> "none", rec |-> NoRecord]
            ELSE IF ~allInts THEN [does |-> "raise", rec |-> NoRecord]       \* line 76: str has no isidigit
            ELSE [does |-> "record",
                  rec  |-> [dev_type |-> dev_type,
                            dev_id   |-> dev_id,
                            lat      |-> IF geoOk THEN FloatVal(lat) ELSE StrVal(lat),
                            lon      |-> IF geoOk THEN FloatVal(lon) ELSE StrVal(lon),
                            apps     |-> [i \in 1..Len(toks) |-> IntOf(Strip(toks[i]))]]]

\* whether the UserApps message takes the record's fields (lines 37-42): lat and
\* lon are double fields of the message
UserAppsAccepts(appsinstalled) ==
    appsinstalled.lat.type = "float" /\ appsinstalled.lon.type = "float"

---------------------------------------------------------------------------
(* The inputs tried                                                        *)

BlankLine   == <<"">>
ShortLine   == <<"idfa", "d1", "55.55">>
FooLine     == <<"foo", "d1", "55.55", "42.42", "12,7">>
IdfaLine    == <<"idfa", "d1", "55.55", "42.42", "12,7">>
GaidLine    == <<"gaid", "d2", "55.55", "42.42", "7, 12">>
BadGeoLine  == <<"idfa", "d3", "abc", "42.42", "12,7">>
BadAppsLine == <<"gaid", "d4", "55.55", "42.42", "12,xx,7">>
NoIdLine    == <<"idfa", "", "55.55", "42.42", "12,7">>
LongLine    == <<"idfa", "d1", "55.55", "42.42", "12,7", "extra">>

\* the texts of the lines tried
SampleLines ==
    {BlankLine, ShortLine, FooLine, IdfaLine, GaidLine, BadGeoLine, BadAppsLine,
     NoIdLine, LongLine}

\* the lines a gzip file is made of
FileLines == {Bytes(fields) : fields \in SampleLines}

\* the five-field texts over the vocabulary
FiveFieldLines ==
    {<<dev_type, dev_id, lat, "42.42", raw_apps>> :
        dev_type \in {"idfa", "foo", ""}, dev_id \in {"d1", ""},
        lat \in {"55.55", "abc"}, raw_apps \in {"12,7", "7, 12", "12,xx,7", "xx"}}

\* the lines parse_appsinstalled is called on: each text as str and as bytes
ParseInputs ==
    {Text(fields) : fields \in SampleLines \cup FiveFieldLines}
        \cup {Bytes(fields) : fields \in SampleLines \cup FiveFieldLines}

\* the records the tasks of a job queue carry: what parse_appsinstalled returns
\* for the text of three of the lines
SampleRecords ==
    {parse_appsinstalled(Text(fields)).rec : fields \in {IdfaLine, GaidLine, BadGeoLine}}

RECURSIVE SeqsUpTo(_, _)
\* the sequences over S of length at most n
SeqsUpTo(S, n) ==
    IF n = 0 THEN {<<>>}
    ELSE LET shorter == SeqsUpTo(S, n - 1)
         IN  shorter \cup {Append(q, x) : q \in {r \in shorter : Len(r) = n - 1}, x \in S}

---------------------------------------------------------------------------
(* State of one handle_logfile run                                         *)

NoTask == [memc_addr |-> "", appsinstalled |-> NoRecord, idx |-> 0]

\* a memcache.Client: the address it was created for
Client(memc_addr) == [addr |-> memc_addr]
NoClient == [addr |-> ""]

\* a worker thread at the top of handle_task's loop with the given tally
AtGet(p, e) ==
    [pc |-> "get", processed |-> p, errors |-> e,
     task |-> NoTask, memc |-> NoClient, ok |-> FALSE, outs |-> <<>>, sleeps |-> <<>>]

\* the states the worker threads are in (threads in the same state are one element)
Workers == BagToSet(wk)

\* the bag of threads after one thread in state w has moved to state v
Moved(w, v) == (wk (-) SetToBag({w})) (+) SetToBag({v})

\* thread.is_alive(): the thread's target has neither returned nor raised
is_alive(w) == w.pc \notin {"dead", "killed"}

\* handle_task lines 96-99: the tally after insert_appsinstalled returned ok
Tally(w, ok) ==
    IF ok THEN AtGet(w.processed + 1, w.errors)
    ELSE AtGet(w.processed, w.errors + 1)

\* backoff_value of line 56, in tenths of a second
backoff_value(n) == MEMC_BACKOFF_FACTOR * (2 ^ n)

\* config lines 23-24 as shipped: both queues unbounded
DefaultMaxsize == [job |-> 0, result |-> 0]

\* Queue.full(): a queue of maxsize 0 is never full
Full(q, size) == size > 0 /\ Len(q) >= size

\* lines 103-124: handle_logfile up to the for loop, on a gzip file
LoaderInit ==
    /\ file \in SeqsUpTo(FileLines, MaxLines)
    /\ dry \in BOOLEAN
    /\ maxsize = DefaultMaxsize
    /\ ppc = "stream"
    /\ pos = 1
    /\ processed = 0
    /\ errors = 0
    /\ verdict = "none"
    /\ job_queue = <<>>
    /\ result_queue = <<>>
    /\ pools = [a \in Addrs |-> <<>>]
    /\ wk = [w \in {AtGet(0, 0)} |-> NumThreads]
    /\ calls = [i \in 1..Len(file) |-> 0]
    /\ returns = [ok |-> 0, failed |-> 0]

---------------------------------------------------------------------------
(* handle_task and insert_appsinstalled, one worker thread w                *)

\* line 89: job_queue.get returns a task
Dequeue(w) ==
    /\ w.pc = "get"
    /\ job_queue # <<>>
    /\ wk' = Moved(w, [w EXCEPT !.pc = "insert", !.task = Head(job_queue)])
    /\ job_queue' = Tail(job_queue)
    /\ UNCHANGED <<mainVars, parseVars>>
    /\ UNCHANGED <<file, dry, maxsize, ppc, pos, processed, errors, verdict,
                   result_queue, pools, calls, returns>>

\* lines 89-90: the queue stayed empty for the 100 ms and get raised Queue.Empty
DequeueTimeout(w) ==
    /\ w.pc = "get"
    /\ job_queue = <<>>
    /\ wk' = Moved(w, [w EXCEPT !.pc = "emit"])
    /\ UNCHANGED <<mainVars, parseVars>>
    /\ UNCHANGED <<file, dry, maxsize, ppc, pos, processed, errors, verdict,
                   job_queue, result_queue, pools, calls, returns>>

\* line 91: the tally goes on the result queue, once it has room; the thread is
\* still running
Emit(w) ==
    /\ w.pc = "emit"
    /\ ~Full(result_queue, maxsize.result)
    /\ result_queue' = Append(result_queue, <<w.processed, w.errors>>)
    /\ wk' = Moved(w, [w EXCEPT !.pc = "return"])
    /\ UNCHANGED <<mainVars, parseVars>>
    /\ UNCHANGED <<file, dry, maxsize, ppc, pos, processed, errors, verdict,
                   job_queue, pools, calls, returns>>

\* line 92: handle_task returns and the thread ends
Return(w) ==
    /\ w.pc = "return"
    /\ wk' = Moved(w, [w EXCEPT !.pc = "dead"])
    /\ UNCHANGED <<mainVars, parseVars>>
    /\ UNCHANGED <<file, dry, maxsize, ppc, pos, processed, errors, verdict,
                   job_queue, result_queue, pools, calls, returns>>

\* lines 95, 37-42: insert_appsinstalled is called and builds the message; the
\* message refuses the record, the exception leaves the call and handle_task,
\* and the thread ends
InsertEncodeRaises(w) ==
    /\ w.pc = "insert"
    /\ ~UserAppsAccepts(w.task.appsinstalled)
    /\ wk' = Moved(w, [w EXCEPT !.pc = "killed"])
    /\ calls' = [calls EXCEPT ![w.task.idx] = @ + 1]
    /\ UNCHANGED <<mainVars, parseVars>>
    /\ UNCHANGED <<file, dry, maxsize, ppc, pos, processed, errors, verdict,
                   job_queue, result_queue, pools, returns>>

\* lines 95, 37-45, 63, 96-97: a dry run logs the write and returns True
InsertDry(w) ==
    /\ w.pc = "insert"
    /\ UserAppsAccepts(w.task.appsinstalled)
    /\ dry
    /\ wk' = Moved(w, Tally(w, TRUE))
    /\ calls' = [calls EXCEPT ![w.task.idx] = @ + 1]
    /\ returns' = [returns EXCEPT !.ok = @ + 1]
    /\ UNCHANGED <<mainVars, parseVars>>
    /\ UNCHANGED <<file, dry, maxsize, ppc, pos, processed, errors, verdict,
                   job_queue, result_queue, pools>>

\* mutant of AcquirePooled: the connection is taken from whichever pool has an
\* idle one, not from the pool of the task's address
AcquirePooled_AnyShard(w) ==
    /\ w.pc = "insert"
    /\ UserAppsAccepts(w.task.appsinstalled)
    /\ ~dry
    /\ \E a \in Addrs :
         /\ pools[a] # <<>>
         /\ wk' = Moved(w, [w EXCEPT !.pc = "set", !.memc = Head(pools[a])])
         /\ pools' = [pools EXCEPT ![a] = Tail(@)]
    /\ calls' = [calls EXCEPT ![w.task.idx] = @ + 1]
    /\ UNCHANGED <<mainVars, parseVars>>
    /\ UNCHANGED <<file, dry, maxsize, ppc, pos, processed, errors, verdict,
                   job_queue, result_queue, returns>>

\* lines 47-48, 51: memc_pool.get returns an idle connection of the task's pool
AcquirePooled(w) ==
    LET a == w.task.memc_addr IN
    /\ w.pc = "insert"
    /\ UserAppsAccepts(w.task.appsinstalled)
    /\ ~dry
    /\ pools[a] # <<>>
    /\ wk' = Moved(w, [w EXCEPT !.pc = "set", !.memc = Head(pools[a])])
    /\ pools' = [pools EXCEPT ![a] = Tail(@)]
    /\ calls' = [calls EXCEPT ![w.task.idx] = @ + 1]
    /\ UNCHANGED <<mainVars, parseVars>>
    /\ UNCHANGED <<file, dry, maxsize, ppc, pos, processed, errors, verdict,
                   job_queue, result_queue, returns>>

\* mutant of AcquireNew: a new client is made whether or not the pool has an
\* idle connection
AcquireNew_Always(w) ==
    LET a == w.task.memc_addr IN
    /\ w.pc = "insert"
    /\ UserAppsAccepts(w.task.appsinstalled)
    /\ ~dry
    /\ \E created \in BOOLEAN :
         wk' = Moved(w, [w EXCEPT !.pc = IF created THEN "set" ELSE "except",
                          !.memc = IF created THEN Client(a) ELSE NoClient])
    /\ calls' = [calls EXCEPT ![w.task.idx] = @ + 1]
    /\ UNCHANGED <<mainVars, parseVars>>
    /\ UNCHANGED <<file, dry, maxsize, ppc, pos, processed, errors, verdict,
                   job_queue, result_queue, pools, returns>>

\* lines 47-51: the pool stayed empty for the 100 ms and a new client is made;
\* the constructor returns (created) or raises into line 60
AcquireNew(w) ==
    LET a == w.task.memc_addr IN
    /\ w.pc = "insert"
    /\ UserAppsAccepts(w.task.appsinstalled)
    /\ ~dry
    /\ pools[a] = <<>>
    /\ \E created \in BOOLEAN :
         wk' = Moved(w, [w EXCEPT !.pc = IF created THEN "set" ELSE "except",
                          !.memc = IF created THEN Client(a) ELSE NoClient])
    /\ calls' = [calls EXCEPT ![w.task.idx] = @ + 1]
    /\ UNCHANGED <<mainVars, parseVars>>
    /\ UNCHANGED <<file, dry, maxsize, ppc, pos, processed, errors, verdict,
                   job_queue, result_queue, pools, returns>>

\* mutant of SetAttempt: the loop lacks the break of line 55 and goes on after a
\* set call that returned true
SetAttempt_NoBreak(w) ==
    LET n == Len(w.outs) IN
    /\ w.pc = "set"
    /\ n < MaxRetries
    /\ \E out \in {"T", "F", "X"} :
         LET called == [w EXCEPT !.outs = Append(@, out), !.ok = (out = "T")]
             slept  == [called EXCEPT !.sleeps = Append(@, backoff_value(n))]
             after  == IF out = "F" THEN slept ELSE called
         IN  wk' = Moved(w, [after EXCEPT !.pc =
                      IF out = "X" THEN "except"
                      ELSE IF n + 1 < MaxRetries THEN "set" ELSE "put"])
    /\ UNCHANGED <<mainVars, parseVars>>
    /\ UNCHANGED <<file, dry, maxsize, ppc, pos, processed, errors, verdict,
                   job_queue, result_queue, pools, calls, returns>>

\* lines 52-57: one pass of the for loop, pass n = the set calls made so far.
\* memc.set returns true ("T"), returns false ("F") or raises ("X"); a false is
\* followed by the sleep of lines 56-57, and the step ends when the thread is
\* back at the top of the loop, out of it (line 58) or in the handler (line 60)
SetAttempt(w) ==
    LET n == Len(w.outs) IN
    /\ w.pc = "set"
    /\ n < MaxRetries
    /\ \E out \in {"T", "F", "X"} :
         LET called == [w EXCEPT !.outs = Append(@, out), !.ok = (out = "T")]
             slept  == [called EXCEPT !.sleeps = Append(@, backoff_value(n))]
             after  == IF out = "F" THEN slept ELSE called
         IN  wk' = Moved(w, [after EXCEPT !.pc =
                      IF out = "X" THEN "except"
                      ELSE IF out = "T" THEN "put"
                      ELSE IF n + 1 < MaxRetries THEN "set" ELSE "put"])
    /\ UNCHANGED <<mainVars, parseVars>>
    /\ UNCHANGED <<file, dry, maxsize, ppc, pos, processed, errors, verdict,
                   job_queue, result_queue, pools, calls, returns>>

\* mutant of Release: the connection goes back to the pool only when the write
\* succeeded
Release_OnlyOnSuccess(w) ==
    LET a == w.task.memc_addr IN
    /\ w.pc = "put"
    /\ pools' = IF w.ok THEN [pools EXCEPT ![a] = Append(@, w.memc)] ELSE pools
    /\ wk' = Moved(w, Tally(w, w.ok))
    /\ returns' = IF w.ok THEN [returns EXCEPT !.ok = @ + 1] ELSE [returns EXCEPT !.failed = @ + 1]
    /\ UNCHANGED <<mainVars, parseVars>>
    /\ UNCHANGED <<file, dry, maxsize, ppc, pos, processed, errors, verdict,
                   job_queue, result_queue, calls>>

\* lines 58-59, 96-99: the connection goes back to the task's pool, the call
\* returns ok and handle_task tallies it
Release(w) ==
    LET a == w.task.memc_addr IN
    /\ w.pc = "put"
    /\ pools' = [pools EXCEPT ![a] = Append(@, w.memc)]
    /\ wk' = Moved(w, Tally(w, w.ok))
    /\ returns' = IF w.ok THEN [returns EXCEPT !.ok = @ + 1] ELSE [returns EXCEPT !.failed = @ + 1]
    /\ UNCHANGED <<mainVars, parseVars>>
    /\ UNCHANGED <<file, dry, maxsize, ppc, pos, processed, errors, verdict,
                   job_queue, result_queue, calls>>

\* mutant of Except: the handler puts the connection it holds back on the pool
Except_Releases(w) ==
    /\ w.pc = "except"
    /\ pools' = IF w.memc = NoClient THEN pools
                ELSE [pools EXCEPT ![w.task.memc_addr] = Append(@, w.memc)]
    /\ wk' = Moved(w, Tally(w, FALSE))
    /\ returns' = [returns EXCEPT !.failed = @ + 1]
    /\ UNCHANGED <<mainVars, parseVars>>
    /\ UNCHANGED <<file, dry, maxsize, ppc, pos, processed, errors, verdict,
                   job_queue, result_queue, calls>>

\* lines 60-62, 98-99: the exception is logged, the call returns False and
\* handle_task tallies an error
Except(w) ==
    /\ w.pc = "except"
    /\ wk' = Moved(w, Tally(w, FALSE))
    /\ returns' = [returns EXCEPT !.failed = @ + 1]
    /\ UNCHANGED <<mainVars, parseVars>>
    /\ UNCHANGED <<file, dry, maxsize, ppc, pos, processed, errors, verdict,
                   job_queue, result_queue, pools, calls>>

---------------------------------------------------------------------------
(* handle_logfile, the thread that streams the file                        *)

\* lines 128-129: the stripped line is empty
IsBlank(line) == line.fields = <<"">>

\* lines 133-143: what the loop does with the value parse_appsinstalled
\* returned for the line at pos, up to the put
RouteParsed(parsed) ==
    LET memc_addr == device_memc_get(parsed.rec.dev_type)
    IN  IF parsed.does = "none"
        THEN /\ errors' = errors + 1
             /\ pos' = pos + 1
             /\ ppc' = "stream"
             /\ UNCHANGED job_queue
        ELSE IF memc_addr = ""
        THEN /\ errors' = errors + 1
             /\ pos' = pos + 1
             /\ ppc' = "stream"
             /\ UNCHANGED job_queue
        ELSE /\ ~Full(job_queue, maxsize.job)                  \* put waits for room
             /\ job_queue' = Append(job_queue,
                   [memc_addr |-> memc_addr, appsinstalled |-> parsed.rec, idx |-> pos])
             /\ ppc' = "check"
             /\ UNCHANGED <<pos, errors>>

\* mutant of ReadLine: a blank line is counted as an error of the file
ReadLine_CountsBlank ==
    /\ ppc = "stream"
    /\ pos <= Len(file)
    /\ LET line   == file[pos]
           parsed == parse_appsinstalled(line)
       IN  IF IsBlank(line)
           THEN /\ pos' = pos + 1
                /\ errors' = errors + 1
                /\ UNCHANGED <<ppc, job_queue>>
           ELSE IF parsed.does = "raise"
           THEN /\ ppc' = "raised"
                /\ UNCHANGED <<pos, errors, job_queue>>
           ELSE RouteParsed(parsed)
    /\ UNCHANGED <<mainVars, parseVars>>
    /\ UNCHANGED <<file, dry, maxsize, processed, verdict, result_queue, pools, wk,
                   calls, returns>>

\* lines 127-143: the for loop's pass over the line at pos, up to the put
ReadLine ==
    /\ ppc = "stream"
    /\ pos <= Len(file)
    /\ LET line   == file[pos]
           parsed == parse_appsinstalled(line)
       IN  IF IsBlank(line)
           THEN /\ pos' = pos + 1
                /\ UNCHANGED <<ppc, errors, job_queue>>
           ELSE IF parsed.does = "raise"
           THEN /\ ppc' = "raised"
                /\ UNCHANGED <<pos, errors, job_queue>>
           ELSE RouteParsed(parsed)
    /\ UNCHANGED <<mainVars, parseVars>>
    /\ UNCHANGED <<file, dry, maxsize, processed, verdict, result_queue, pools, wk,
                   calls, returns>>

\* lines 145-146: after the put, break unless every worker thread is alive
CheckAlive ==
    /\ ppc = "check"
    /\ IF \A w \in Workers : is_alive(w)
       THEN /\ ppc' = "stream"
            /\ pos' = pos + 1
       ELSE /\ ppc' = "join"
            /\ pos' = pos
    /\ UNCHANGED <<mainVars, parseVars>>
    /\ UNCHANGED <<file, dry, maxsize, processed, errors, verdict, job_queue,
                   result_queue, pools, wk, calls, returns>>

\* line 127: the file has no further line
EndOfFile ==
    /\ ppc = "stream"
    /\ pos > Len(file)
    /\ ppc' = "join"
    /\ UNCHANGED <<mainVars, parseVars>>
    /\ UNCHANGED <<file, dry, maxsize, pos, processed, errors, verdict, job_queue,
                   result_queue, pools, wk, calls, returns>>

\* lines 148-150: every worker thread that is alive is joined
JoinWorkers ==
    /\ ppc = "join"
    /\ \A w \in Workers : ~is_alive(w)
    /\ ppc' = "drain"
    /\ UNCHANGED <<mainVars, parseVars>>
    /\ UNCHANGED <<file, dry, maxsize, pos, processed, errors, verdict, job_queue,
                   result_queue, pools, wk, calls, returns>>

RECURSIVE SumOf(_, _)
\* the sum of component k of the pairs of q
SumOf(q, k) == IF q = <<>> THEN 0 ELSE Head(q)[k] + SumOf(Tail(q), k)

\* mutant of Classify: the comparison of line 159 is <= and a rate of exactly
\* 1% is logged as acceptable
Classify_AtMost(p, e) ==
    IF p = 0 THEN "none"
    ELSE IF e * NORMAL_ERR_RATE_DEN <= p THEN "acceptable"
    ELSE "high"

\* lines 157-162: what is logged for the totals
Classify(p, e) ==
    IF p = 0 THEN "none"
    ELSE IF e * NORMAL_ERR_RATE_DEN < p THEN "acceptable"
    ELSE "high"

\* lines 152-164: the result queue is emptied into the totals, the error rate
\* is classified and fn returned
DrainAndReturn ==
    /\ ppc = "drain"
    /\ processed' = processed + SumOf(result_queue, 1)
    /\ errors' = errors + SumOf(result_queue, 2)
    /\ result_queue' = <<>>
    /\ verdict' = Classify(processed', errors')
    /\ ppc' = "done"
    /\ UNCHANGED <<mainVars, parseVars>>
    /\ UNCHANGED <<file, dry, maxsize, pos, job_queue, pools, wk, calls, returns>>

\* the steps of a handle_logfile run.  ReadLine leaves the loop by the
\* exception at the first line that is not blank, so no run reaches the put of
\* line 143: CheckAlive is never enabled, no worker thread of a run ever holds
\* a task, and the steps of handle_task past a get that returned are the steps
\* of SpecTasks
Next ==
    \/ ReadLine
    \/ EndOfFile
    \/ JoinWorkers
    \/ DrainAndReturn
    \/ \E w \in Workers : DequeueTimeout(w)
    \/ \E w \in Workers : Emit(w)
    \/ \E w \in Workers : Return(w)

MainIdle ==
    /\ fnames = <<>>
    /\ loads = <<>>
    /\ task = <<>>
    /\ taken = 0
    /\ mpc = "idle"
    /\ nxt = 0
    /\ renamed = <<>>
    /\ logged = <<>>

NoReturn == [does |-> "pending", rec |-> NoRecord]

ParseIdle ==
    /\ arg = Text(BlankLine)
    /\ ret = NoReturn

Init == LoaderInit /\ MainIdle /\ ParseIdle

Spec == Init /\ [][Next]_vars

\* one run in which some thread that can take a step eventually takes one: the
\* scheduler runs the threads, and every call returns or raises
SpecLive == Init /\ [][Next]_vars /\ WF_vars(Next)

\* lines 23-24 set to positive sizes: handle_logfile with bounded queues
BoundedInit ==
    /\ file \in SeqsUpTo(FileLines, MaxLines)
    /\ dry \in BOOLEAN
    /\ maxsize \in [job : 1..MaxQueueSize, result : 1..MaxQueueSize]
    /\ ppc = "stream"
    /\ pos = 1
    /\ processed = 0
    /\ errors = 0
    /\ verdict = "none"
    /\ job_queue = <<>>
    /\ result_queue = <<>>
    /\ pools = [a \in Addrs |-> <<>>]
    /\ wk = [w \in {AtGet(0, 0)} |-> NumThreads]
    /\ calls = [i \in 1..Len(file) |-> 0]
    /\ returns = [ok |-> 0, failed |-> 0]

InitBounded == BoundedInit /\ MainIdle /\ ParseIdle

SpecBounded == InitBounded /\ [][Next]_vars

---------------------------------------------------------------------------
(* handle_task threads on a job queue that holds tasks when they start:    *)
(* a caller builds the queues as lines 110-112 do, puts the tasks and      *)
(* starts 1..NumThreads threads with target handle_task, as lines 114-121  *)
(* do.  Every task carries the same dry_run.                               *)

\* the job queues tried: each task as line 143 builds it from a record
TaskQueues ==
    {[i \in 1..Len(q) |->
        [memc_addr |-> device_memc_get(q[i].dev_type), appsinstalled |-> q[i], idx |-> i]] :
     q \in SeqsUpTo(SampleRecords, MaxTasks)}

TasksInit ==
    /\ file = <<>>
    /\ dry \in BOOLEAN
    /\ maxsize = DefaultMaxsize
    /\ ppc = "caller"
    /\ pos = 1
    /\ processed = 0
    /\ errors = 0
    /\ verdict = "none"
    /\ job_queue \in TaskQueues
    /\ result_queue = <<>>
    /\ pools = [a \in Addrs |-> <<>>]
    /\ \E n \in 1..NumThreads : wk = [w \in {AtGet(0, 0)} |-> n]
    /\ calls = [i \in 1..Len(job_queue) |-> 0]
    /\ returns = [ok |-> 0, failed |-> 0]

InitTasks == TasksInit /\ MainIdle /\ ParseIdle

NextTasks ==
    \/ \E w \in Workers : Dequeue(w)
    \/ \E w \in Workers : DequeueTimeout(w)
    \/ \E w \in Workers : Emit(w)
    \/ \E w \in Workers : Return(w)
    \/ \E w \in Workers : InsertEncodeRaises(w)
    \/ \E w \in Workers : InsertDry(w)
    \/ \E w \in Workers : AcquirePooled(w)
    \/ \E w \in Workers : AcquireNew(w)
    \/ \E w \in Workers : SetAttempt(w)
    \/ \E w \in Workers : Release(w)
    \/ \E w \in Workers : Except(w)

SpecTasks == InitTasks /\ [][NextTasks]_vars

---------------------------------------------------------------------------
(* parse_appsinstalled called on one line                                  *)

LoaderIdle ==
    /\ file = <<>>
    /\ dry = FALSE
    /\ maxsize = DefaultMaxsize
    /\ ppc = "idle"
    /\ pos = 0
    /\ processed = 0
    /\ errors = 0
    /\ verdict = "none"
    /\ job_queue = <<>>
    /\ result_queue = <<>>
    /\ pools = [a \in Addrs |-> <<>>]
    /\ wk = EmptyBag
    /\ calls = <<>>
    /\ returns = [ok |-> 0, failed |-> 0]

InitParse ==
    /\ arg \in ParseInputs
    /\ ret = NoReturn
    /\ LoaderIdle
    /\ MainIdle

\* lines 66-82: the call runs to its return or to the exception that leaves it
ParseCall ==
    /\ ret = NoReturn
    /\ ret' = parse_appsinstalled(arg)
    /\ UNCHANGED <<arg, loaderVars, mainVars>>

NextParse == ParseCall

SpecParse == InitParse /\ [][NextParse]_vars

---------------------------------------------------------------------------
(* main and the __main__ block.  A handle_logfile task of the process pool  *)
(* is followed through its phases only: queued (handle_logfile not yet      *)
(* called), streaming (workers started, the file being streamed), draining *)
(* (joining the workers, summing the results), returned, or raised.        *)

\* the totals (processed, errors) tried for a file that loads
SampleTotals == {<<0, 0>>, <<0, 1>>, <<100, 0>>, <<100, 1>>, <<99, 2>>, <<101, 1>>}

\* what loading one file gives: reading it raises, or the run ends with totals
Loads ==
    {[raises |-> TRUE, processed |-> 0, errors |-> 0]}
      \cup {[raises |-> FALSE, processed |-> t[1], errors |-> t[2]] : t \in SampleTotals}

\* lines 168-171: the pool is made, the files are listed in sorted order and
\* one handle_logfile task per file is queued
MainInit ==
    /\ \E n \in 0..MaxFiles :
         /\ fnames = [i \in 1..n |-> i]
         /\ loads \in [1..n -> Loads]
         /\ task = [i \in 1..n |-> "queued"]
         /\ renamed = [i \in 1..n |-> 0]
         /\ logged = [i \in 1..n |-> "none"]
    /\ taken = 0
    /\ mpc = "loop"
    /\ nxt = 1

\* the tasks some process of the pool holds: taken off the queue and neither
\* returned nor raised
Running == {i \in 1..taken : task[i] \in {"queued", "streaming", "draining"}}

\* line 172: a free process of the pool takes the next task off the pool's
\* queue, which holds the tasks in the order of fnames; handle_logfile is not
\* called yet
TaskTake ==
    /\ mpc = "loop"
    /\ taken < Len(fnames)
    /\ Cardinality(Running) < NumProcesses
    /\ taken' = taken + 1
    /\ UNCHANGED <<fnames, loads, task, mpc, nxt, renamed, logged>>
    /\ UNCHANGED <<loaderVars, parseVars>>

\* lines 102-124: a process calls handle_logfile on the task it took
TaskStart(i) ==
    /\ mpc = "loop"
    /\ i <= taken
    /\ task[i] = "queued"
    /\ task' = [task EXCEPT ![i] = "streaming"]
    /\ UNCHANGED <<fnames, loads, taken, mpc, nxt, renamed, logged>>
    /\ UNCHANGED <<loaderVars, parseVars>>

\* lines 126-146: the file is streamed to its end or to the break, unless
\* opening or reading it raises
TaskStream(i) ==
    /\ mpc = "loop"
    /\ task[i] = "streaming"
    /\ task' = [task EXCEPT ![i] = IF loads[i].raises THEN "raised" ELSE "draining"]
    /\ UNCHANGED <<fnames, loads, taken, mpc, nxt, renamed, logged>>
    /\ UNCHANGED <<loaderVars, parseVars>>

\* lines 148-164: the workers are joined, the results summed, the error rate
\* classified and fn returned
TaskDrain(i) ==
    /\ mpc = "loop"
    /\ task[i] = "draining"
    /\ task' = [task EXCEPT ![i] = "returned"]
    /\ logged' = [logged EXCEPT ![i] = Classify(loads[i].processed, loads[i].errors)]
    /\ UNCHANGED <<fnames, loads, taken, mpc, nxt, renamed>>
    /\ UNCHANGED <<loaderVars, parseVars>>

\* lines 172-173, 30-33: imap yields the result of the next file in order and
\* the file is renamed
Rename ==
    /\ mpc = "loop"
    /\ nxt <= Len(fnames)
    /\ task[nxt] = "returned"
    /\ renamed' = [renamed EXCEPT ![nxt] = @ + 1]
    /\ nxt' = nxt + 1
    /\ UNCHANGED <<fnames, loads, task, taken, mpc, logged>>
    /\ UNCHANGED <<loaderVars, parseVars>>

\* lines 172, 210-214: imap re-raises the exception of the next file's task; it
\* leaves main, is logged, and the process exits with status 1, its pool with it
MainRaises ==
    /\ mpc = "loop"
    /\ nxt <= Len(fnames)
    /\ task[nxt] = "raised"
    /\ mpc' = "exit1"
    /\ UNCHANGED <<fnames, loads, task, taken, nxt, renamed, logged>>
    /\ UNCHANGED <<loaderVars, parseVars>>

\* line 172: imap has no further result and main returns
MainReturns ==
    /\ mpc = "loop"
    /\ nxt > Len(fnames)
    /\ mpc' = "exit0"
    /\ UNCHANGED <<fnames, loads, task, taken, nxt, renamed, logged>>
    /\ UNCHANGED <<loaderVars, parseVars>>

InitMain == LoaderIdle /\ MainInit /\ ParseIdle

NextMain ==
    \/ TaskTake
    \/ \E i \in DOMAIN task : TaskStart(i)
    \/ \E i \in DOMAIN task : TaskStream(i)
    \/ \E i \in DOMAIN task : TaskDrain(i)
    \/ Rename
    \/ MainRaises
    \/ MainReturns

SpecMain == InitMain /\ [][NextMain]_vars

---------------------------------------------------------------------------
(* What a line holds, read off its fields alone                            *)

\* a non-empty line with fewer than 5 fields, or a 5-field line whose dev_type
\* or dev_id is empty: the lines that are parse failures
ExpectNothing(line) ==
    /\ ~IsBlank(line)
    /\ \/ Len(line.fields) < 5
       \/ Len(line.fields) = 5 /\ (line.fields[1] = "" \/ line.fields[2] = "")

\* a 5-field line with non-empty identity fields: the lines that hold a record
HoldsRecord(line) ==
    Len(line.fields) = 5 /\ line.fields[1] # "" /\ line.fields[2] # ""

\* a record whose device type is not a key of the routing table
IsUnknownDevice(line) ==
    HoldsRecord(line) /\ line.fields[1] \notin DOMAIN device_memc

\* a 5-field line with non-empty identity fields whose apps tokens are all
\* integers
WellFormed(line) ==
    HoldsRecord(line) /\ line.fields[5] \in {"12,7", "7, 12"}

\* a 5-field line with non-empty identity fields one of whose apps tokens is
\* not an integer
HasNonIntegerToken(line) ==
    HoldsRecord(line) /\ line.fields[5] \in {"12,xx,7", "xx"}

\* the all-digit tokens of an apps field as integers, in input order
ExpectedApps(raw_apps) ==
    CASE raw_apps = "12,7"    -> <<12, 7>>
      [] raw_apps = "7, 12"   -> <<7, 12>>
      [] raw_apps = "12,xx,7" -> <<12, 7>>
      [] OTHER                -> <<>>

\* how many of the first n lines of the file satisfy P
CountLines(P(_), n) == Cardinality({i \in 1..n : i <= Len(file) /\ P(file[i])})

NonEmpty(line) == ~IsBlank(line)

\* the for loop has read line i of the file: it has passed it, or it stands at
\* it after the put or after the exception that ended the run
HasRead(i) == i < pos \/ (i = pos /\ ppc \in {"check", "raised"})

\* how many threads of the bag are in a state that satisfies P
CountThreads(P(_)) == BagCardinality([w \in {v \in Workers : P(v)} |-> wk[w]])

Terminated(w) == ~is_alive(w)

\* the thread has put its tally on the result queue
HasPut(w) == w.pc \in {"return", "dead"}

---------------------------------------------------------------------------
(* Claims about one handle_logfile run (Spec)                              *)

\* C1 (as claimed): a handle_logfile run ends at DONE with totals that do not
\* depend on the interleaving: processed is the number of writes that
\* succeeded, errors is parse failures + unknown device types + failed writes,
\* and processed + errors is the number of non-empty lines of the file.
C1_TotalsIndependentOfInterleaving ==
    ppc \in {"done", "raised"} =>
        /\ ppc = "done"
        /\ processed = returns.ok
        /\ errors = CountLines(ExpectNothing, Len(file))
                      + CountLines(IsUnknownDevice, Len(file)) + returns.failed
        /\ processed + errors = CountLines(NonEmpty, Len(file))

\* C12 (as claimed): for every line the loop has read, a line with fewer than 5
\* fields or with an empty identity field parses to nothing and has no WorkItem
\* and no insert_appsinstalled call; a well-formed line parses to a record
\* whose apps are the input integers in input order; and while the file is
\* streamed the file errors are one per line that parsed to nothing plus one
\* per unknown device type.
C12_NothingIsOneErrorNoItem ==
    /\ \A i \in 1..Len(file) :
         HasRead(i) =>
            /\ ExpectNothing(file[i]) =>
                 /\ parse_appsinstalled(file[i]).does = "none"
                 /\ calls[i] = 0
                 /\ \A k \in 1..Len(job_queue) : job_queue[k].idx # i
                 /\ \A w \in Workers : w.task.idx # i
            /\ WellFormed(file[i]) =>
                 /\ parse_appsinstalled(file[i]).does = "record"
                 /\ parse_appsinstalled(file[i]).rec.apps = ExpectedApps(file[i].fields[5])
    /\ ppc \in {"stream", "check"} =>
         errors = CountLines(ExpectNothing, pos - 1) + CountLines(IsUnknownDevice, pos - 1)

\* C15 (as claimed): no WorkItem goes on the job queue once every worker thread
\* has ended, and the producer leaves the streaming loop before the end of the
\* file only when every worker thread has ended.
C15_StopsIffAllWorkersDead ==
    [][/\ Len(job_queue') > Len(job_queue) => \E w \in Workers : is_alive(w)
       /\ (/\ ppc \in {"stream", "check"}
           /\ ppc' \notin {"stream", "check"}
           /\ pos <= Len(file)) => \A w \in Workers : ~is_alive(w)]_vars

C21_EventuallyDone ==
    <>(ppc = "done" /\ result_queue = <<>> /\ \A w \in Workers : ~is_alive(w))

\* the producer waits at the put of line 143 for room on the job queue
ProducerBlocked ==
    /\ ppc = "stream" /\ pos <= Len(file)
    /\ ~IsBlank(file[pos])
    /\ parse_appsinstalled(file[pos]).does = "record"
    /\ device_memc_get(parse_appsinstalled(file[pos]).rec.dev_type) # ""
    /\ Full(job_queue, maxsize.job)

\* a thread waits at line 91 for room on the result queue
EmitBlocked(w) == w.pc = "emit" /\ Full(result_queue, maxsize.result)

\* C22 (as claimed): with positive queue sizes, the producer never waits for
\* room on the job queue when every worker thread has ended, and no worker
\* thread waits for room on the result queue while handle_logfile waits in the
\* join.
C22_NoDeadlockWithBoundedQueues ==
    /\ ~(ProducerBlocked /\ \A w \in Workers : ~is_alive(w))
    /\ ~(ppc = "join" /\ \E w \in Workers : EmitBlocked(w))

---------------------------------------------------------------------------
(* Claims about parse_appsinstalled (SpecParse)                            *)

\* C11 (as claimed): parse_appsinstalled raises for no line: whatever the line,
\* the call returns a record or nothing.
C11_ParseNeverRaises ==
    ret # NoReturn => ret.does \in {"record", "none"}

\* C13 (as claimed): a line with an apps token that is not an integer parses to
\* a record whose apps are the all-digit tokens as integers in input order
\* ("12,xx,7" gives 12, 7).
C13_NonIntegerTokensDropped ==
    (ret # NoReturn /\ HasNonIntegerToken(arg)) =>
        /\ ret.does = "record"
        /\ ret.rec.apps = ExpectedApps(arg.fields[5])

---------------------------------------------------------------------------
(* Claims about handle_task and insert_appsinstalled (SpecTasks)           *)

\* C2 (as claimed): every worker thread puts exactly one value on the result
\* queue when it terminates, whatever it dequeued and whatever the store did,
\* so that once every thread has ended the queue holds one value per thread.
C2_OneResultPerWorker ==
    /\ Len(result_queue) = CountThreads(HasPut)
    /\ \A w \in Workers : Terminated(w) => HasPut(w)
    /\ (\A w \in Workers : Terminated(w)) => Len(result_queue) = BagCardinality(wk)

\* C3 (as claimed): insert_appsinstalled never lets an exception out, so no
\* worker thread is ever killed by one.
C3_InsertNeverRaises == \A w \in Workers : w.pc # "killed"

\* C4 (as claimed): no task has two insert_appsinstalled invocations, and once
\* every worker thread has ended, which is what the join of handle_logfile
\* waits for, the job queue is empty and every task that was on it went through
\* exactly one invocation.
C4_EveryItemInsertedOnce ==
    /\ \A i \in DOMAIN calls : calls[i] <= 1
    /\ (\A w \in Workers : Terminated(w)) =>
          /\ job_queue = <<>>
          /\ \A i \in DOMAIN calls : calls[i] = 1

\* C7 (as claimed): in a dry run no pool is touched, no client is made, no set
\* is attempted, no sleep is made, and every insert_appsinstalled call returns
\* True.
C7_DryRunTouchesNothing ==
    dry =>
        /\ \A a \in Addrs : pools[a] = <<>>
        /\ \A w \in Workers :
             /\ w.pc \notin {"set", "put", "except"}
             /\ w.memc = NoClient /\ w.outs = <<>> /\ w.sleeps = <<>>
             /\ w.pc # "killed"
        /\ returns.failed = 0

\* the set calls of a retry loop: none after a "T", and only the last may be
\* other than a returned false
StopsAtFirstSuccess(outs) == \A i \in 1..(Len(outs) - 1) : outs[i] = "F"

SomeAttemptTrue(outs) == \E i \in 1..Len(outs) : outs[i] = "T"

RECURSIVE SumTallies(_, _)
\* the sum of field k ("processed" or "errors") over the threads of bag b
SumTallies(b, k) ==
    IF b = EmptyBag THEN 0
    ELSE LET w == CHOOSE v \in BagToSet(b) : TRUE
         IN  (IF k = "processed" THEN w.processed ELSE w.errors) * b[w]
               + SumTallies([v \in BagToSet(b) \ {w} |-> b[v]], k)

\* C8: a write that is not a dry run makes at most MaxRetries set calls and
\* none after the first that returns true; the value it is about to return is
\* true exactly when some set call returned true; the worker tallies count
\* every call that returned True once in processed and every call that
\* returned False once in errors; and no task has two calls.
C8_BoundedRetries ==
    /\ \A w \in Workers :
         /\ Len(w.outs) <= MaxRetries
         /\ StopsAtFirstSuccess(w.outs)
         /\ w.pc = "set" => (Len(w.outs) < MaxRetries /\ ~SomeAttemptTrue(w.outs))
         /\ w.pc = "put" => (w.ok <=> SomeAttemptTrue(w.outs))
         /\ w.pc = "except" => ~SomeAttemptTrue(w.outs)
    /\ SumTallies(wk, "processed") = returns.ok
    /\ SumTallies(wk, "errors") = returns.failed
    /\ \A i \in DOMAIN calls : calls[i] <= 1

\* C8 witness: a write whose first set call returned false and whose second
\* returned true is about to return True.
C8_Witness ==
    \E w \in Workers : w.pc = "put" /\ w.outs = <<"F", "T">> /\ w.ok

\* C9 (as claimed): sleeps happen only between two set calls of one write: a
\* finished loop that made k set calls slept k - 1 times, the i-th sleep being
\* MEMC_BACKOFF_FACTOR * 2^(i-1).
C9_SleepsOnlyBetweenAttempts ==
    \A w \in Workers :
        (w.pc \in {"put", "except"} /\ w.outs # <<>>) =>
            /\ Len(w.sleeps) = Len(w.outs) - 1
            /\ \A i \in 1..Len(w.sleeps) : w.sleeps[i] = MEMC_BACKOFF_FACTOR * (2 ^ (i - 1))

\* C16: every idle connection of a pool was created for that pool's address, and
\* every connection in a worker's hands was created for the address its task
\* is routed to.
C16_ConnectionStaysOnItsShard ==
    /\ \A a \in Addrs : \A k \in 1..Len(pools[a]) : pools[a][k] = Client(a)
    /\ \A w \in Workers :
         /\ w.memc # NoClient => w.memc = Client(w.task.memc_addr)
         /\ w.pc \in {"set", "put"} => w.memc = Client(w.task.memc_addr)
         /\ w.task # NoTask => w.task.memc_addr = device_memc_get(w.task.appsinstalled.dev_type)

\* C16 witness: a write routed to the gaid shard holds a connection while the
\* pool of the idfa shard has an idle one.
C16_Witness ==
    /\ pools[device_memc["idfa"]] # <<>>
    /\ \E w \in Workers :
         /\ w.pc \in {"set", "put"}
         /\ w.task.memc_addr = device_memc["gaid"]
         /\ w.memc = Client(device_memc["gaid"])

\* C18: the step in which a thread leaves line 58 of a write that raised
\* nothing appends the connection it used to the pool of the task's address,
\* whether the write succeeded or every attempt returned false, and the
\* connection is one of that address.
C18_ConnectionReturnedToPool ==
    [][\A w \in Workers :
          (w.pc = "put" /\ CopiesIn(w, wk') < CopiesIn(w, wk)) =>
              /\ w.memc = Client(w.task.memc_addr)
              /\ pools' = [pools EXCEPT ![w.task.memc_addr] = Append(@, w.memc)]]_vars

\* C18 witness: the one write that has returned made only set calls that
\* returned false, and its connection is idle in the pool of its address.
C18_Witness ==
    /\ returns = [ok |-> 0, failed |-> 1]
    /\ \E a \in Addrs : pools[a] = <<Client(a)>>

\* the write of thread w was ended by a set call that raised
SetRaised(w) ==
    w.pc = "except" /\ w.memc # NoClient /\ w.outs # <<>> /\ w.outs[Len(w.outs)] = "X"

\* C19: the step in which a thread leaves the handler of a write whose set call
\* raised changes no pool, counts one call that returned False, and leaves the
\* thread at the top of its loop with one more error and no connection.
C19_ConnectionLostOnException ==
    [][\A w \in Workers :
          (SetRaised(w) /\ CopiesIn(w, wk') < CopiesIn(w, wk)) =>
              /\ pools' = pools
              /\ returns' = [returns EXCEPT !.failed = @ + 1]
              /\ CopiesIn(AtGet(w.processed, w.errors + 1), wk')
                   > CopiesIn(AtGet(w.processed, w.errors + 1), wk)]_vars

\* C19 witness: the second set call of a write raised; the thread is in the
\* handler with the connection it acquired, and the pool of the address has
\* none.
C19_Witness ==
    \E w \in Workers :
        /\ SetRaised(w) /\ w.outs = <<"F", "X">>
        /\ w.memc = Client(w.task.memc_addr)
        /\ pools[w.task.memc_addr] = <<>>

\* C20 (as claimed): a thread that has ended, or is about to put or has put its
\* tally, holds no task: it ended from a dequeue that timed out, never between
\* a dequeue and the end of that item's write.
C20_TerminatesOnlyOnTimeout ==
    \A w \in Workers :
        /\ w.pc \in {"emit", "return", "dead", "killed"} => w.task = NoTask
        /\ ~is_alive(w) => w.pc = "dead"

\* the connections of address a in the hands of worker threads
Held(a) == CountThreads(LAMBDA w : w.memc = Client(a))

\* C23: for every shard address, the idle connections of its pool are at most
\* as many as the worker threads; and so are, whenever the pool has an idle
\* connection, the idle ones together with the connections of that address in
\* the hands of worker threads (each thread holds at most one).
C23_PoolBoundedByThreads ==
    LET threads == BagCardinality(wk)
    IN  \A a \in Addrs :
            /\ Len(pools[a]) <= threads
            /\ pools[a] # <<>> => Len(pools[a]) + Held(a) <= threads

\* C23 witness: one worker thread has made two writes to the idfa shard, the
\* second with the connection of the first, and the pool holds that one idle
\* connection.
C23_Witness ==
    /\ BagCardinality(wk) = 1
    /\ returns.ok + returns.failed = 2
    /\ calls = <<1, 1>>
    /\ pools[device_memc["idfa"]] = <<Client(device_memc["idfa"])>>
    /\ pools[device_memc["gaid"]] = <<>>

---------------------------------------------------------------------------
(* Claims about main and the error-rate classification (SpecMain)          *)

\* C5 (as claimed): when main has ended, every file whose load does not raise
\* was loaded to completion and renamed, whatever happened to the other files.
C5_FailureIsolated ==
    mpc \in {"exit0", "exit1"} =>
        \A i \in DOMAIN task : ~loads[i].raises => (task[i] = "returned" /\ renamed[i] = 1)

\* C6 (as claimed): a file is never renamed twice and is renamed only once its
\* own handle_logfile task has returned; and when main has ended every file
\* whose handle_logfile returned has been renamed, whatever was logged for its
\* error rate.
C6_RenamedOnceAfterReturn ==
    /\ \A i \in DOMAIN task :
         /\ renamed[i] <= 1
         /\ renamed[i] = 1 => task[i] = "returned"
    /\ mpc \in {"exit0", "exit1"} =>
         \A i \in DOMAIN task : task[i] = "returned" => renamed[i] = 1

\* C14: a file's task that has returned with processed > 0 logged "acceptable"
\* exactly when errors * 100 < processed and "high error rate" otherwise, so a
\* rate of exactly 1% is high; with processed = 0 it logged nothing, whatever
\* errors is; and nothing is logged for a file before its totals are summed.
C14_ErrorRateClassification ==
    \A i \in DOMAIN task :
        LET p == loads[i].processed
            e == loads[i].errors
        IN  /\ task[i] = "returned" =>
                 /\ p > 0 => /\ logged[i] = "acceptable" <=> e * 100 < p
                             /\ logged[i] = "high" <=> e * 100 >= p
                 /\ p = 0 => logged[i] = "none"
            /\ task[i] # "returned" => logged[i] = "none"

\* C14 witness: three files have returned: 100 processed and 0 errors logged
\* acceptable, 99 processed and 2 errors logged high, and 100 processed and 1
\* error (exactly 1%) logged high.
C14_Witness ==
    /\ \E i \in DOMAIN task :
         task[i] = "returned" /\ loads[i].processed = 100 /\ loads[i].errors = 0
           /\ logged[i] = "acceptable"
    /\ \E i \in DOMAIN task :
         task[i] = "returned" /\ loads[i].processed = 99 /\ loads[i].errors = 2
           /\ logged[i] = "high"
    /\ \E i \in DOMAIN task :
         task[i] = "returned" /\ loads[i].processed = 100 /\ loads[i].errors = 1
           /\ logged[i] = "high"

=============================================================================
